---- MODULE Spec2Model ----
(***************************************************************************)
(* amrex::Gpu::AsyncArray<T> (Src/Base/AMReX_GpuAsyncArray.H).             *)
(*                                                                         *)
(* One AsyncArray object at a time lives in the caller's scope; it owns at *)
(* most one pinned-host allocation (h_data) and at most one device         *)
(* allocation (d_data).  The arenas, the launch-region flag, the current   *)
(* GPU stream and the stream runtime are the collaborators the header      *)
(* calls; they are modelled by what the header relies on.                  *)
(***************************************************************************)
EXTENDS Integers, Sequences, FiniteSets, TLC

VARIABLES
    backend,       \* build configuration (which #if branches are compiled)
    launchRegion,  \* value Gpu::inLaunchRegion() reports on a GPU build
    curStream,     \* index of the stream Gpu::gpuStream() returns
    stream,        \* stream index -> sequence of work items not yet executed
    obj,           \* "none" | "live": whether an AsyncArray object exists
    d_data,        \* AsyncArray::d_data
    h_data,        \* AsyncArray::h_data
    hostAllocs,    \* pointers The_Pinned_Arena()->alloc has returned
    devAllocs,     \* pointers The_Arena()->alloc has returned
    hostFrees,     \* pointer -> number of times passed to The_Pinned_Arena()->free
    devFrees,      \* pointer -> number of times passed to The_Arena()->free
    hostMem,       \* host allocation id -> contents
    devMem,        \* device allocation id -> contents
    dest,          \* the caller's destination array given to copyToHost
    src,           \* the host source given to the last constructor
    trace,         \* collaborator calls made by the last step, in order
    lastOp,        \* the last step: which operation, its arguments, the state it saw
    fresh,         \* the caller has done nothing since the constructor from a host source
    everAsync,     \* inLaunchRegion() has held at some time in the live buffer's lifetime
    staging,       \* device pointer -> the host pointer allocated with it (NULL: none)
    aborted        \* amrex::Abort was called

vars == <<backend, launchRegion, curStream, stream, obj, d_data, h_data,
          hostAllocs, devAllocs, hostFrees, devFrees, hostMem, devMem,
          dest, src, trace, lastOp, fresh, everAsync, staging, aborted>>

(***************************************************************************)
(* Bounds of the model.                                                    *)
(***************************************************************************)
MaxLen     == 2   \* largest element count n a caller passes
MaxObjects == 1   \* AsyncArray objects constructed one after another
MaxKernels == 1   \* caller kernels pending on one stream at a time
NumStreams == 2   \* GPU streams the caller can make current

SizeofT == 4      \* sizeof(T) of the element type the template is used with

Vals    == {0, 1}                 \* element values
Stale   == 7                      \* what the destination holds before any copy
Streams == 1 .. NumStreams
Lens    == 0 .. MaxLen
Ids     == 1 .. MaxObjects

Backends == {"NONE", "CUDA", "HIP", "SYCL_HOST_TASK", "SYCL"}

(***************************************************************************)
(* Pointers.  A pointer remembers the arena that returned it.              *)
(***************************************************************************)
NULL       == [pool |-> "null", id |-> 0]
HostPtr(i) == [pool |-> "host", id |-> i]
DevPtr(i)  == [pool |-> "dev",  id |-> i]
HostPtrs   == {HostPtr(i) : i \in Ids}
DevPtrs    == {DevPtr(i) : i \in Ids}
Ptrs       == HostPtrs \cup DevPtrs

Arrays(n) == [1 .. n -> Vals]
Fill(n, v) == [i \in 1 .. n |-> v]


(***************************************************************************)
(* Collaborators: the two arenas, the launch-region flag, the streams.     *)
(* The "world" record w carries what a collaborator call can change: the   *)
(* arenas' free counts (hf, df), the memories (hm, dm) and the calls made  *)
(* (tr).                                                                   *)
(***************************************************************************)
Call(c, pool, p, arg) == [c |-> c, pool |-> pool, p |-> p, arg |-> arg]

Item(type, d, h, val) == [type |-> type, d |-> d, h |-> h, val |-> val]

NoWrite == 0 - 1    \* a kernel that only reads data()
KVals   == {NoWrite, 1}           \* what a caller's kernel does to data()

\* contents an uninitialized allocation may hold
Junk(n) == {[i \in 1 .. n |-> v] : v \in Vals}

World == [hf |-> hostFrees, df |-> devFrees, hm |-> hostMem, dm |-> devMem, tr |-> <<>>]

\* Gpu::inLaunchRegion(); without AMREX_USE_GPU the #ifdef'd branches are absent
inLaunchRegion == backend # "NONE" /\ launchRegion

\* The_Pinned_Arena()->alloc / The_Arena()->alloc: the next unused block
NextHost == HostPtr(Cardinality(hostAllocs) + 1)
NextDev  == DevPtr(Cardinality(devAllocs) + 1)
CanAlloc == Cardinality(hostAllocs) < MaxObjects /\ Cardinality(devAllocs) < MaxObjects

\* The_Pinned_Arena()->free(p): freeing nullptr is a call that releases nothing
\* and the contents of a freed block are no longer the program's
PinnedFree(w, p) ==
    [w EXCEPT !.hf = IF p = NULL THEN @ ELSE [@ EXCEPT ![p] = @ + 1],
              !.hm = IF p.pool = "host" THEN [@ EXCEPT ![p.id] = <<>>] ELSE @,
              !.tr = Append(@, Call("free", "host", p, 0))]

\* The_Arena()->free(p)
ArenaFree(w, p) ==
    [w EXCEPT !.df = IF p = NULL THEN @ ELSE [@ EXCEPT ![p] = @ + 1],
              !.dm = IF p.pool = "dev" THEN [@ EXCEPT ![p.id] = <<>>] ELSE @,
              !.tr = Append(@, Call("free", "dev", p, 0))]

\* amrex_asyncarray_delete(p): the CUDA / HIP stream callback; p = {d_data, h_data}
amrex_asyncarray_delete(w, pd, ph) == PinnedFree(ArenaFree(w, pd), ph)

\* the host task with its two pointers exchanged
host_task_swapped(w, pd, ph) == PinnedFree(ArenaFree(w, ph), pd)

\* the codeplay_host_task lambda: The_Arena()->free(pd); The_Pinned_Arena()->free(ph)
host_task(w, pd, ph) == PinnedFree(ArenaFree(w, pd), ph)

\* One work item executed by the stream runtime
Exec(it, w) ==
    CASE it.type = "htod"      -> [w EXCEPT !.dm[it.d.id] = w.hm[it.h.id]]
      [] it.type = "kernel"    -> IF it.val = NoWrite THEN w
                                  ELSE [w EXCEPT !.dm[it.d.id] = Fill(Len(@), it.val)]
      [] it.type = "callback"  -> amrex_asyncarray_delete(w, it.d, it.h)
      [] it.type = "host_task" -> host_task(w, it.d, it.h)

\* Gpu::streamSynchronize(): everything pending on the stream runs, in order
RECURSIVE Drain(_, _)
Drain(q, w) == IF q = <<>> THEN w ELSE Drain(Tail(q), Exec(Head(q), w))

\* work items pending on q that use the device block d
Uses(q, d) == {i \in 1 .. Len(q) : q[i].type \in {"htod", "kernel"} /\ q[i].d = d}

Op(name, n) ==
    [op |-> name, n |-> n, async |-> inLaunchRegion, d0 |-> d_data, h0 |-> h_data,
     s |-> curStream, imm |-> fresh, k |-> Cardinality(Uses(stream[curStream], d_data))]

\* a step of the caller that is no operation of the buffer
Env == [op |-> "env", n |-> 0, async |-> FALSE, d0 |-> NULL, h0 |-> NULL, s |-> 0, imm |-> FALSE,
        k |-> 0]

Commit(w) ==
    /\ hostFrees' = w.hf
    /\ devFrees' = w.df
    /\ hostMem' = w.hm
    /\ devMem' = w.dm
    /\ trace' = w.tr

build  == <<backend, aborted>>
pools  == <<hostFrees, devFrees, hostMem, devMem>>
allocs == <<hostAllocs, devAllocs, staging>>
fields == <<obj, d_data, h_data>>
scope  == <<src, dest>>

Init ==
    /\ backend \in Backends
    /\ launchRegion = (backend # "NONE")
    /\ curStream = 1
    /\ stream = [s \in Streams |-> <<>>]
    /\ obj = "none"
    /\ d_data = NULL
    /\ h_data = NULL
    /\ hostAllocs = {}
    /\ devAllocs = {}
    /\ hostFrees = [p \in Ptrs |-> 0]
    /\ devFrees = [p \in Ptrs |-> 0]
    /\ hostMem = [i \in Ids |-> <<>>]
    /\ devMem = [i \in Ids |-> <<>>]
    /\ dest = Fill(MaxLen, Stale)
    /\ src = <<>>
    /\ trace = <<>>
    /\ lastOp = Env
    /\ fresh = FALSE
    /\ everAsync = FALSE
    /\ staging = [p \in DevPtrs |-> NULL]
    /\ aborted = FALSE

(***************************************************************************)
(* AsyncArray (T const* h_p, const std::size_t n)                          *)
(***************************************************************************)
\* the constructor with its Gpu::inLaunchRegion() test lost
FromHostUsesDevice_always(inl) == TRUE

\* whether the constructor from a host source also allocates on the device
FromHostUsesDevice(inl) == inl

AsyncArray_from_host(h_p, n) ==
    /\ ~aborted /\ obj = "none"
    /\ n = Len(h_p)
    /\ n > 0 => CanAlloc
    /\ lastOp' = Op("AsyncArray_from_host", n)
    /\ obj' = "live"
    /\ src' = h_p
    /\ dest' = Fill(MaxLen, Stale)
    /\ fresh' = (n > 0)
    /\ everAsync' = inLaunchRegion
    /\ IF n = 0
       THEN /\ trace' = <<>>
            /\ UNCHANGED <<d_data, h_data, allocs, hostMem, devMem, stream>>
       ELSE /\ h_data' = NextHost
            /\ hostAllocs' = hostAllocs \cup {NextHost}
            /\ hostMem' = [hostMem EXCEPT ![NextHost.id] = h_p]
            /\ IF FromHostUsesDevice(inLaunchRegion)
               THEN /\ d_data' = NextDev
                    /\ devAllocs' = devAllocs \cup {NextDev}
                    /\ staging' = [staging EXCEPT ![NextDev] = NextHost]
                    /\ \E junk \in Junk(n) : devMem' = [devMem EXCEPT ![NextDev.id] = junk]
                    /\ stream' = [stream EXCEPT ![curStream] =
                                     Append(@, Item("htod", NextDev, NextHost, NoWrite))]
                    /\ trace' = << Call("alloc", "host", NextHost, n * SizeofT),
                                   Call("memcpy", "host", NextHost, n * SizeofT),
                                   Call("alloc", "dev", NextDev, n * SizeofT),
                                   Call("htod_memcpy_async", "dev", NextDev, n * SizeofT) >>
               ELSE /\ trace' = << Call("alloc", "host", NextHost, n * SizeofT),
                                   Call("memcpy", "host", NextHost, n * SizeofT) >>
                    /\ UNCHANGED <<d_data, devAllocs, staging, devMem, stream>>
    /\ UNCHANGED <<build, launchRegion, curStream, hostFrees, devFrees>>

(***************************************************************************)
(* explicit AsyncArray (const std::size_t n)                               *)
(***************************************************************************)
\* the uninitialized constructor with its device branch lost
UninitPool_host(inl) == "host"

\* which arena the uninitialized constructor allocates from
UninitPool(inl) == IF inl THEN "dev" ELSE "host"

AsyncArray_uninit(n) ==
    /\ ~aborted /\ obj = "none"
    /\ n > 0 => CanAlloc
    /\ lastOp' = Op("AsyncArray_uninit", n)
    /\ obj' = "live"
    /\ src' = <<>>
    /\ dest' = Fill(MaxLen, Stale)
    /\ fresh' = FALSE
    /\ everAsync' = inLaunchRegion
    /\ IF n = 0
       THEN /\ trace' = <<>>
            /\ UNCHANGED <<d_data, h_data, hostAllocs, devAllocs, hostMem, devMem>>
       ELSE \E junk \in Junk(n) :
            IF UninitPool(inLaunchRegion) = "dev"
            THEN /\ d_data' = NextDev
                 /\ devAllocs' = devAllocs \cup {NextDev}
                 /\ devMem' = [devMem EXCEPT ![NextDev.id] = junk]
                 /\ trace' = << Call("alloc", "dev", NextDev, n * SizeofT) >>
                 /\ UNCHANGED <<h_data, hostAllocs, hostMem>>
            ELSE /\ h_data' = NextHost
                 /\ hostAllocs' = hostAllocs \cup {NextHost}
                 /\ hostMem' = [hostMem EXCEPT ![NextHost.id] = junk]
                 /\ trace' = << Call("alloc", "host", NextHost, n * SizeofT) >>
                 /\ UNCHANGED <<d_data, devAllocs, devMem>>
    /\ UNCHANGED <<build, launchRegion, curStream, stream, hostFrees, devFrees, staging>>

(***************************************************************************)
(* T* data () noexcept                                                     *)
(***************************************************************************)
\* data() that prefers the host pointer
data_ptr_host(d, h) == IF h # NULL THEN h ELSE d

\* data() that forgets the host pointer
data_ptr_device(d, h) == d

data_ptr(d, h) == IF d # NULL THEN d ELSE h

(***************************************************************************)
(* void clear ()   and   ~AsyncArray () { clear(); }                       *)
(***************************************************************************)
\* clear() without its test d_data != nullptr
clearPath_unguarded(be, inl, d) ==
    IF inl
    THEN CASE be \in {"CUDA", "HIP"}   -> "callback"
           [] be = "SYCL_HOST_TASK"    -> "host_task"
           [] OTHER                    -> "sync_free"
    ELSE "free_host"

\* clear() that takes the blocking branch on every backend
clearPath_blocking(be, inl, d) ==
    IF inl
    THEN IF d # NULL THEN "sync_free" ELSE "nothing"
    ELSE "free_host"

\* the branch of clear() that runs
clearPath(be, inl, d) ==
    IF inl
    THEN IF d # NULL
         THEN CASE be \in {"CUDA", "HIP"}   -> "callback"
                [] be = "SYCL_HOST_TASK"    -> "host_task"
                [] OTHER                    -> "sync_free"
         ELSE "nothing"
    ELSE "free_host"

\* the fallback branch without its Gpu::streamSynchronize()
clearSynchronize_skipped(q, w) == [w |-> w, q |-> q]

\* Gpu::streamSynchronize() of the fallback branch: the world afterwards and
\* what is left pending on the stream
clearSynchronize(q, w) == [w |-> Drain(q, w), q |-> <<>>]

\* clear() that forgets to reset the pointers
clearedPointer_kept(p) == p

\* d_data = nullptr; h_data = nullptr;
clearedPointer(p) == NULL

\* a failed registration that is ignored: clear() carries on and returns
onRegistrationFailure_ignored == "return"

\* AMREX_HIP_SAFE_CALL / AMREX_CUDA_SAFE_CALL / catch (sycl::exception): amrex::Abort
onRegistrationFailure == "abort"

clearBody(name, after) ==
    LET path == clearPath(backend, inLaunchRegion, d_data)
        ahead == Cardinality(Uses(stream[curStream], d_data))
    IN
    /\ ~aborted
    /\ lastOp' = Op(name, ahead)
    /\ fresh' = FALSE
    /\ IF path \in {"callback", "host_task"}
       THEN \E registered \in BOOLEAN :
            IF registered
            THEN \* the release item remembers how much work on d_data it was put behind
                 /\ stream' = [stream EXCEPT ![curStream] =
                                  Append(@, Item(path, d_data, h_data, ahead))]
                 /\ trace' = << Call(path, "dev", d_data, curStream) >>
                 /\ d_data' = clearedPointer(d_data)
                 /\ h_data' = clearedPointer(h_data)
                 /\ obj' = after
                 /\ UNCHANGED <<pools, aborted>>
            ELSE IF onRegistrationFailure = "abort"
            THEN /\ aborted' = TRUE
                 /\ trace' = << Call("Abort", "null", NULL, 0) >>
                 /\ UNCHANGED <<stream, d_data, h_data, obj, pools>>
            ELSE /\ trace' = <<>>
                 /\ d_data' = clearedPointer(d_data)
                 /\ h_data' = clearedPointer(h_data)
                 /\ obj' = after
                 /\ UNCHANGED <<stream, pools, aborted>>
       ELSE /\ CASE path = "sync_free" ->
                     LET synced == clearSynchronize(stream[curStream], World) IN
                     /\ Commit(PinnedFree(ArenaFree(
                            [synced.w EXCEPT
                                !.tr = Append(@, Call("streamSynchronize", "null", NULL, curStream))],
                            d_data), h_data))
                     /\ stream' = [stream EXCEPT ![curStream] = synced.q]
              [] path = "nothing" ->
                     /\ Commit(World)
                     /\ UNCHANGED stream
              [] path = "free_host" ->
                     /\ Commit(PinnedFree(World, h_data))
                     /\ UNCHANGED stream
            /\ d_data' = clearedPointer(d_data)
            /\ h_data' = clearedPointer(h_data)
            /\ obj' = after
            /\ UNCHANGED aborted
    \* the source and the destination arrays live in the buffer's scope
    /\ IF obj' = "none"
       THEN src' = <<>> /\ dest' = Fill(MaxLen, Stale)
       ELSE UNCHANGED scope
    /\ UNCHANGED <<backend, launchRegion, curStream, allocs, everAsync>>

clear == obj = "live" /\ clearBody("clear", "live")

Destructor == obj = "live" /\ clearBody("destructor", "none")

(***************************************************************************)
(* void copyToHost (T* h_p, std::size_t n) const                           *)
(***************************************************************************)
\* a copy of n bytes instead of n*sizeof(T): the last element is not copied
Memcpy_short(to, from, n) == [i \in 1 .. Len(to) |-> IF i < n THEN from[i] ELSE to[i]]

\* the first n elements of to replaced by those of from
Memcpy(to, from, n) == [i \in 1 .. Len(to) |-> IF i <= n THEN from[i] ELSE to[i]]

\* copyToHost that reads the host staging block although a device block exists
copySource_host(be, d, h) == h

\* which pointer copyToHost reads
copySource(be, d, h) == IF be # "NONE" /\ d # NULL THEN d ELSE h

\* copyToHost without its test n == 0
copyReturnsEarly_unchecked(n, from) == from = NULL

\* if (n == 0) return;  and neither pointer set: nothing is copied
copyReturnsEarly(n, from) == n = 0 \/ from = NULL

copyToHost(n) ==
    LET from == copySource(backend, d_data, h_data) IN
    /\ ~aborted /\ obj = "live"
    /\ lastOp' = Op("copyToHost", n)
    /\ fresh' = FALSE
    /\ IF copyReturnsEarly(n, from)
       THEN /\ trace' = <<>>
            /\ UNCHANGED <<stream, pools, dest>>
       ELSE IF from.pool = "dev"
       THEN \* Gpu::dtoh_memcpy: the copy is enqueued on the current stream, which is
            \* then synchronized
            LET w == Drain(stream[curStream], World) IN
            /\ n <= Len(devMem[from.id])
            /\ n <= Len(w.dm[from.id])
            /\ Commit([w EXCEPT !.tr = Append(@, Call("dtoh_memcpy", "dev", from, n * SizeofT))])
            /\ stream' = [stream EXCEPT ![curStream] = <<>>]
            /\ dest' = Memcpy(dest, w.dm[from.id], n)
       ELSE /\ n <= Len(hostMem[from.id])
            /\ trace' = << Call("memcpy", "host", from, n * SizeofT) >>
            /\ dest' = Memcpy(dest, hostMem[from.id], n)
            /\ UNCHANGED <<stream, pools>>
    /\ UNCHANGED <<build, launchRegion, curStream, fields, allocs, src, everAsync>>

(***************************************************************************)
(* The caller and the runtime.                                             *)
(***************************************************************************)
Kernels(q) == Cardinality({i \in 1 .. Len(q) : q[i].type = "kernel"})

\* the caller enqueues device work on data() on the current stream
LaunchKernel(v) ==
    /\ ~aborted /\ obj = "live"
    /\ d_data # NULL
    /\ Kernels(stream[curStream]) < MaxKernels
    /\ lastOp' = Env
    /\ fresh' = FALSE
    /\ trace' = <<>>
    /\ stream' = [stream EXCEPT ![curStream] =
                     Append(@, Item("kernel", data_ptr(d_data, h_data), NULL, v))]
    /\ UNCHANGED <<build, launchRegion, curStream, fields, allocs, pools, scope, everAsync>>

\* Gpu::Device::setStreamIndex: another stream becomes Gpu::gpuStream()
SetStream(s) ==
    /\ ~aborted /\ backend # "NONE"
    /\ s # curStream
    /\ curStream' = s
    /\ lastOp' = Env
    /\ fresh' = FALSE
    /\ trace' = <<>>
    /\ UNCHANGED <<build, launchRegion, stream, fields, allocs, pools, scope, everAsync>>

\* Gpu::setLaunchRegion / Gpu::LaunchSafeGuard
SetLaunchRegion(b) ==
    /\ ~aborted /\ backend # "NONE"
    /\ b # launchRegion
    /\ launchRegion' = b
    /\ lastOp' = Env
    /\ fresh' = FALSE
    /\ everAsync' = (everAsync \/ (b /\ obj = "live"))
    /\ trace' = <<>>
    /\ UNCHANGED <<build, curStream, stream, fields, allocs, pools, scope>>

\* the device runtime executes the oldest work item of one stream
StreamStep(s) ==
    /\ ~aborted
    /\ stream[s] # <<>>
    /\ Commit(Exec(Head(stream[s]), World))
    /\ stream' = [stream EXCEPT ![s] = Tail(@)]
    /\ lastOp' = [Op(Head(stream[s]).type, Head(stream[s]).val) EXCEPT
                     !.s = s, !.d0 = Head(stream[s]).d, !.h0 = Head(stream[s]).h]
    /\ UNCHANGED <<build, launchRegion, curStream, fields, allocs, scope, fresh, everAsync>>

Next ==
    \/ \E n \in Lens : \E h_p \in Arrays(n) : AsyncArray_from_host(h_p, n)
    \/ \E n \in Lens : AsyncArray_uninit(n)
    \/ clear
    \/ Destructor
    \/ \E n \in Lens : copyToHost(n)
    \/ \E v \in KVals : LaunchKernel(v)
    \/ \E s \in Streams : SetStream(s)
    \/ \E b \in BOOLEAN : SetLaunchRegion(b)
    \/ \E s \in Streams : StreamStep(s)

Spec == Init /\ [][Next]_vars

\* the device runtime keeps executing pending stream work
FairSpec == Spec /\ \A s \in Streams : WF_vars(StreamStep(s))

(***************************************************************************)
(* Properties.                                                             *)
(***************************************************************************)
Releases   == {"callback", "host_task"}
ClearOps   == {"clear", "destructor"}
CtorOps    == {"AsyncArray_from_host", "AsyncArray_uninit"}
Pending(t) == \E s \in Streams : \E i \in 1 .. Len(stream[s]) : stream[s][i].type \in t
Drained    == \A s \in Streams : stream[s] = <<>>

\* the last step passed the device block of lastOp.d0 to The_Arena()->free
FreedDevice ==
    /\ lastOp.d0 \in DevPtrs
    /\ \/ lastOp.op \in Releases
       \/ lastOp.op \in ClearOps /\ Call("free", "dev", lastOp.d0, 0) \in {trace[i] : i \in 1 .. Len(trace)}

\* C1: in asynchronous mode the device allocation is passed to the device
\* pool's free only when no work that uses it is still pending on the stream
\* clear() ordered the release on: everything enqueued on that stream up to
\* the clear() call has run.
C1_FreeAfterStreamWork ==
    FreedDevice => Uses(stream[lastOp.s], lastOp.d0) = {}

\* a release ran for a block that had work pending on its stream when clear() was called
C1_Witness ==
    /\ lastOp.op \in Releases
    /\ lastOp.n > 0
    /\ devFrees[lastOp.d0] = 1

\* C2: constructing from a host source and immediately copying back n
\* elements leaves the first n elements of the destination equal to the
\* source, with and without a device copy.
C2_RoundTrip ==
    (lastOp.op = "copyToHost" /\ lastOp.imm /\ lastOp.n > 0)
        => \A i \in 1 .. lastOp.n : dest[i] = src[i]

\* the asynchronous round trip of a source of MaxLen different elements
C2_Witness ==
    /\ lastOp.op = "copyToHost" /\ lastOp.imm
    /\ lastOp.d0 # NULL
    /\ lastOp.n = MaxLen
    /\ src = [i \in 1 .. MaxLen |-> i % 2]
    /\ dest = src

\* C3: no pointer an arena returned is passed to an arena's free more than
\* once, whoever frees it (the caller, a callback, or one of each).
C3_AtMostOneRelease ==
    \A p \in Ptrs : hostFrees[p] + devFrees[p] <= 1

\* the destructor ran on a buffer already cleared, whose allocation has been freed
C3_Witness ==
    /\ lastOp.op = "destructor"
    /\ lastOp.d0 = NULL /\ lastOp.h0 = NULL
    /\ \E p \in Ptrs : hostFrees[p] + devFrees[p] = 1

\* C4 (as claimed): once clear() or the destructor has returned for a buffer
\* that held a device allocation and the streams have drained, the device
\* allocation has been freed to the device arena and its host staging
\* allocation, if any, to the pinned arena, whatever inLaunchRegion()
\* returned at the time of the release.
C4_ReleasedOnceDrained ==
    \A p \in devAllocs :
        (p # d_data /\ Drained /\ ~aborted)
            => /\ devFrees[p] >= 1
               /\ staging[p] # NULL => hostFrees[staging[p]] >= 1

\* C5 (as claimed): clear() on a host-only buffer has freed the host
\* allocation when it returns, whatever inLaunchRegion() returns then.
C5_HostFreedByClear ==
    (lastOp.op \in ClearOps /\ lastOp.d0 = NULL /\ lastOp.h0 # NULL)
        => hostFrees[lastOp.h0] = 1

\* the last step was an operation on an empty buffer
EmptyOp ==
    \/ lastOp.op \in CtorOps /\ lastOp.n = 0
    \/ lastOp.op \in ClearOps \cup {"copyToHost"} /\ lastOp.d0 = NULL /\ lastOp.h0 = NULL

C7_NullAfterClear ==
    (lastOp.op \in ClearOps /\ ~aborted)
        => /\ d_data = NULL
           /\ h_data = NULL
           /\ data_ptr(d_data, h_data) = NULL

\* clear() has returned with the release registered on a stream and not yet run
C7_Witness ==
    /\ lastOp.op = "clear"
    /\ lastOp.d0 # NULL
    /\ Pending(Releases)
    /\ devFrees[lastOp.d0] = 0

CallsTo(c, pool) == {i \in 1 .. Len(trace) : trace[i].c = c /\ trace[i].pool = pool}

\* C8: the constructor from a host source with n > 0 makes exactly one
\* pinned-arena allocation of n*sizeof(T) bytes and copies the source into it
\* before returning; it makes exactly one device-arena allocation of
\* n*sizeof(T) bytes and enqueues one host-to-device copy on the current
\* stream if and only if inLaunchRegion() held at construction.
C8_FromHost ==
    (lastOp.op = "AsyncArray_from_host" /\ lastOp.n > 0) =>
        /\ Cardinality(CallsTo("alloc", "host")) = 1
        /\ \A i \in CallsTo("alloc", "host") :
              trace[i].arg = lastOp.n * SizeofT /\ trace[i].p = h_data
        /\ h_data \in HostPtrs
        /\ hostMem[h_data.id] = src
        /\ Len(src) = lastOp.n
        /\ IF lastOp.async
           THEN /\ Cardinality(CallsTo("alloc", "dev")) = 1
                /\ \A i \in CallsTo("alloc", "dev") :
                      trace[i].arg = lastOp.n * SizeofT /\ trace[i].p = d_data
                /\ Cardinality(CallsTo("htod_memcpy_async", "dev")) = 1
                /\ d_data \in DevPtrs
                /\ stream[curStream] # <<>>
                /\ stream[curStream][Len(stream[curStream])] = Item("htod", d_data, h_data, NoWrite)
           ELSE /\ CallsTo("alloc", "dev") = {}
                /\ CallsTo("htod_memcpy_async", "dev") = {}
                /\ d_data = NULL
                /\ \A s \in Streams : \A i \in 1 .. Len(stream[s]) : stream[s][i].h # h_data

\* a buffer of MaxLen elements built in a launch region: device block and host staging
C8_Witness ==
    /\ lastOp.op = "AsyncArray_from_host"
    /\ lastOp.n = MaxLen
    /\ lastOp.async
    /\ d_data # NULL /\ h_data # NULL

\* C9: the uninitialized constructor with n > 0 makes exactly one arena
\* allocation, of n*sizeof(T) bytes: from the device arena only in a launch
\* region (h_data stays null), from the pinned arena only otherwise
\* (d_data stays null).
C9_Uninit ==
    (lastOp.op = "AsyncArray_uninit" /\ lastOp.n > 0) =>
        /\ Len(trace) = 1
        /\ trace[1].c = "alloc"
        /\ trace[1].arg = lastOp.n * SizeofT
        /\ IF lastOp.async
           THEN trace[1].pool = "dev" /\ trace[1].p = d_data /\ d_data \in DevPtrs
                /\ h_data = NULL
           ELSE trace[1].pool = "host" /\ trace[1].p = h_data /\ h_data \in HostPtrs
                /\ d_data = NULL

\* on a GPU build outside a launch region, MaxLen uninitialized elements come from the pinned arena
C9_Witness ==
    /\ lastOp.op = "AsyncArray_uninit"
    /\ lastOp.n = MaxLen
    /\ backend = "CUDA" /\ ~lastOp.async
    /\ h_data # NULL /\ d_data = NULL

\* C10: while inLaunchRegion() has not held in the buffer's lifetime (always
\* so without a GPU backend) the buffer is a plain host buffer: no operation
\* calls the device arena or a stream, data() is the host pointer,
\* copyToHost is one memcpy from the host block and clear() frees the host
\* block at once.
C10_PlainHostBuffer ==
    (lastOp.op \in CtorOps \cup ClearOps \cup {"copyToHost"} /\ ~everAsync) =>
        /\ \A i \in 1 .. Len(trace) :
              trace[i].pool = "host" /\ trace[i].c \in {"alloc", "memcpy", "free"}
        /\ lastOp.d0 = NULL /\ d_data = NULL
        /\ data_ptr(d_data, h_data) = h_data
        /\ (lastOp.op = "copyToHost" /\ lastOp.n > 0 /\ lastOp.h0 # NULL) =>
              /\ trace = << Call("memcpy", "host", lastOp.h0, lastOp.n * SizeofT) >>
              /\ \A i \in 1 .. lastOp.n : dest[i] = hostMem[lastOp.h0.id][i]
        /\ (lastOp.op \in ClearOps /\ lastOp.h0 # NULL) =>
              /\ trace = << Call("free", "host", lastOp.h0, 0) >>
              /\ hostFrees[lastOp.h0] = 1

\* a GPU build that never entered a launch region frees the host block in clear()
C10_Witness ==
    /\ backend = "HIP"
    /\ lastOp.op = "clear"
    /\ ~everAsync
    /\ lastOp.h0 # NULL
    /\ hostFrees[lastOp.h0] = 1

\* C11: when copyToHost returns on a buffer with a device allocation, the
\* first n elements of the destination are the device block's contents as
\* left by all the work that was pending on the current stream at the call
\* (the constructor's copy, the caller's kernels), and none of that work is
\* pending any more.
C11_CopyBackSynchronous ==
    (lastOp.op = "copyToHost" /\ lastOp.n > 0 /\ lastOp.d0 # NULL) =>
        /\ \A i \in 1 .. lastOp.n : dest[i] = devMem[lastOp.d0.id][i]
        /\ stream[lastOp.s] = <<>>
        /\ trace # <<>>
        /\ trace[Len(trace)] = Call("dtoh_memcpy", "dev", lastOp.d0, lastOp.n * SizeofT)

\* copy-back returned what a kernel wrote after the constructor's copy, both
\* pending on the current stream when copyToHost was called
C11_Witness ==
    /\ lastOp.op = "copyToHost"
    /\ lastOp.d0 # NULL
    /\ lastOp.n = MaxLen
    /\ lastOp.k = 2
    /\ src = Fill(MaxLen, 0)
    /\ dest = Fill(MaxLen, 1)

\* backends on which clear() registers the release with the stream
CallbackBackends == {"CUDA", "HIP", "SYCL_HOST_TASK"}

\* the last step was clear() or the destructor, in a launch region, on a
\* buffer with a device allocation
AsyncClear ==
    /\ lastOp.op \in ClearOps
    /\ lastOp.async
    /\ lastOp.d0 # NULL

\* C12: on the backend without a stream callback (SYCL without host tasks),
\* clear() in a launch region on a buffer with a device allocation first
\* synchronizes the current stream and then frees the device block and the
\* host block itself: when it returns nothing is pending on that stream and
\* both blocks have been freed, the synchronization first.
C12_FallbackBlocksThenFrees ==
    (AsyncClear /\ backend = "SYCL") =>
        /\ stream[lastOp.s] = <<>>
        /\ devFrees[lastOp.d0] = 1
        /\ lastOp.h0 # NULL => hostFrees[lastOp.h0] = 1
        /\ Len(trace) >= 3
        /\ SubSeq(trace, Len(trace) - 2, Len(trace)) =
               << Call("streamSynchronize", "null", NULL, lastOp.s),
                  Call("free", "dev", lastOp.d0, 0),
                  Call("free", "host", lastOp.h0, 0) >>

\* the fallback ran with the constructor's copy and a kernel pending on the stream
C12_Witness ==
    /\ AsyncClear /\ backend = "SYCL"
    /\ lastOp.k = 2
    /\ lastOp.h0 # NULL
    /\ devFrees[lastOp.d0] = 1 /\ hostFrees[lastOp.h0] = 1

\* C13: on a backend with a stream callback, clear() in a launch region on a
\* buffer with a device allocation, when the registration succeeds, appends
\* the release to the current stream and changes nothing else that is
\* pending, runs none of the pending work, and frees nothing itself: the
\* arenas are as before the call and its only call is the registration.
C13_ClearDoesNotWait ==
    [][ (/\ lastOp'.op \in ClearOps
         /\ lastOp'.async
         /\ lastOp'.d0 # NULL
         /\ backend \in CallbackBackends
         /\ ~aborted')
        => /\ stream' = [stream EXCEPT ![curStream] =
                            Append(@, Item(IF backend = "SYCL_HOST_TASK" THEN "host_task"
                                                                         ELSE "callback",
                                           d_data, h_data, lastOp'.n))]
           /\ UNCHANGED pools
           /\ Len(trace') = 1
           /\ trace'[1].c \in Releases
           /\ trace'[1].p = d_data ]_vars

\* clear() has returned while the constructor's copy and a kernel are still
\* pending ahead of the release, and nothing has been freed
C13_Witness ==
    /\ AsyncClear /\ backend = "CUDA"
    /\ lastOp.k = 2
    /\ Len(stream[lastOp.s]) = 3
    /\ stream[lastOp.s][3].type = "callback"
    /\ devFrees[lastOp.d0] = 0
    /\ lastOp.h0 # NULL /\ hostFrees[lastOp.h0] = 0

\* C14: in every reachable state data() is the device pointer, a block of
\* the device arena, when a device allocation is present, and never the
\* host staging pointer then; otherwise it is the host pointer, a block of
\* the pinned arena, or null when the buffer is empty.
C14_DataPointer ==
    /\ d_data \in devAllocs \cup {NULL}
    /\ h_data \in hostAllocs \cup {NULL}
    /\ IF d_data # NULL
       THEN /\ data_ptr(d_data, h_data) = d_data
            /\ data_ptr(d_data, h_data).pool = "dev"
            /\ data_ptr(d_data, h_data) # h_data
            /\ data_ptr(d_data, h_data) # staging[d_data]
       ELSE /\ data_ptr(d_data, h_data) = h_data
            /\ data_ptr(d_data, h_data).pool = (IF h_data = NULL THEN "null" ELSE "host")
    /\ \A s \in Streams : \A i \in 1 .. Len(stream[s]) :
          stream[s][i].type = "kernel" => stream[s][i].d \in devAllocs

\* a buffer with a device block and its host staging block, and a kernel
\* enqueued on data()
C14_Witness ==
    /\ obj = "live"
    /\ d_data # NULL /\ h_data # NULL
    /\ staging[d_data] = h_data
    /\ \E i \in 1 .. Len(stream[curStream]) :
          stream[curStream][i] = Item("kernel", d_data, NULL, 1)

\* C15: a clear() that has to register the release either registers it or
\* aborts the process: when the registration fails nothing is freed, nothing
\* is appended to the stream, the pointers are not reset, the only call is
\* the abort, and no step of the program follows.
C15_RegistrationFailureAborts ==
    [][ /\ ~aborted
        /\ (/\ lastOp'.op \in ClearOps
            /\ lastOp'.async
            /\ lastOp'.d0 # NULL
            /\ backend \in CallbackBackends)
           => \/ /\ ~aborted'
                 /\ Len(stream'[curStream]) = Len(stream[curStream]) + 1
              \/ /\ aborted'
                 /\ UNCHANGED <<stream, pools, fields>>
                 /\ trace' = << Call("Abort", "null", NULL, 0) >>
        /\ aborted' => /\ lastOp'.op \in ClearOps
                       /\ lastOp'.async
                       /\ lastOp'.d0 # NULL
                       /\ backend \in CallbackBackends ]_vars

\* the process aborted in clear(): the blocks are still allocated and held
C15_Witness ==
    /\ aborted
    /\ lastOp.op = "clear"
    /\ d_data = lastOp.d0 /\ d_data # NULL
    /\ h_data = lastOp.h0 /\ h_data # NULL
    /\ devFrees[d_data] = 0 /\ hostFrees[h_data] = 0
    /\ ~Pending(Releases)

\* C16 (as claimed): the host staging block of a pending host-to-device copy
\* has not been freed to the pinned arena, whatever inLaunchRegion() returned
\* when the buffer was released.
C16_StagingOutlivesCopy ==
    \A s \in Streams : \A i \in 1 .. Len(stream[s]) :
        stream[s][i].type = "htod" => hostFrees[stream[s][i].h] = 0

\* C17 (as claimed): a device block that has been freed has no work using it
\* pending on any stream, the stream it was constructed on included, also
\* when another stream was current at clear().
C17_FreeAfterConstructionStreamWork ==
    \A p \in DevPtrs : devFrees[p] > 0 => \A s \in Streams : Uses(stream[s], p) = {}

\* C17 (amended): a step that frees a device block is ordered after the work
\* on one stream only, the stream that was current at clear(): no work using
\* the block is pending on that stream afterwards, and the step runs and
\* waits for nothing on any other stream.
C17_FreeOrderedOnClearStreamOnly ==
    [][ \A p \in DevPtrs :
            devFrees'[p] > devFrees[p]
                => /\ Uses(stream'[lastOp'.s], p) = {}
                   /\ \A s \in Streams \ {lastOp'.s} : stream'[s] = stream[s] ]_vars

\* a release ran on the stream current at clear() and freed a device block
\* while work using it is pending on the stream it was constructed on
C17_Witness ==
    /\ lastOp.op \in Releases
    /\ devFrees[lastOp.d0] = 1
    /\ \E s \in Streams \ {lastOp.s} : Uses(stream[s], lastOp.d0) # {}

\* C18: copyToHost never changes the buffer's pointers and never calls an
\* arena (a free it makes happen is a release that was pending on the stream
\* it synchronizes); with n == 0 on any buffer, and with any n on an empty
\* buffer, it changes nothing at all: destination, streams and arenas are
\* as before and no call is made.
C18_CopyFrame ==
    [][ lastOp'.op = "copyToHost"
        => /\ UNCHANGED <<fields, allocs>>
           /\ \A i \in 1 .. Len(trace') :
                 trace'[i].c \in {"alloc", "free"}
                     => \E j \in 1 .. Len(stream[curStream]) :
                           /\ stream[curStream][j].type \in Releases
                           /\ trace'[i].p \in {stream[curStream][j].d, stream[curStream][j].h}
           /\ (lastOp'.n = 0 \/ (d_data = NULL /\ h_data = NULL))
                 => /\ dest' = dest
                    /\ trace' = <<>>
                    /\ UNCHANGED <<stream, pools>> ]_vars

\* copyToHost of MaxLen elements on a cleared buffer left in the destination
\* what an earlier copy had put there
C18_Witness ==
    /\ lastOp.op = "copyToHost"
    /\ lastOp.n = MaxLen
    /\ lastOp.d0 = NULL /\ lastOp.h0 = NULL
    /\ hostAllocs # {}
    /\ dest = Fill(MaxLen, 1)
    /\ trace = <<>>

\* C19: a block is only ever passed to the free of the arena it came from,
\* on every release path and whatever inLaunchRegion() returned at
\* construction and at release.
C19_FreedToOwnPool ==
    /\ \A p \in Ptrs : hostFrees[p] > 0 => p \in hostAllocs
    /\ \A p \in Ptrs : devFrees[p] > 0 => p \in devAllocs
    /\ hostAllocs \subseteq HostPtrs
    /\ devAllocs \subseteq DevPtrs

\* a host task has freed a device block to the device arena and its staging
\* block to the pinned arena
C19_Witness ==
    /\ lastOp.op = "host_task"
    /\ lastOp.d0 \in devAllocs /\ devFrees[lastOp.d0] = 1
    /\ lastOp.h0 \in hostAllocs /\ hostFrees[lastOp.h0] = 1

====
